---- MODULE Spec2Model ----
(***************************************************************************)
(* A model of src/src/routing.rs: the pattern parser (Parser), the route   *)
(* matcher (Route::matches), the navigation state (Router) and split_path. *)
(*                                                                         *)
(* A string is a sequence of characters; a character is a one-character    *)
(* TLA+ string.  "U" stands for a character whose UTF-8 encoding takes two *)
(* bytes (such as e-acute); every other character takes one byte.  NUL is  *)
(* char::default(), the value of unwrap_or_default() on a missing char.    *)
(***************************************************************************)
EXTENDS Integers, Sequences, FiniteSets, TLC

VARIABLES
    \* Router (navigation state)
    current_path, remainder, history, subs, signals, queue, lastOp, rpc,
    \* Parser
    input, index, result, iterations, ppc,
    \* Route / RouteMatch, one entry per registered route
    pattern, route, sample, mtch, mpc,
    \* split_path and RouteMatch::path (join)
    raw, segments, joined, resplit, spc

routerVars == <<current_path, remainder, history, subs, signals, queue, lastOp, rpc>>
parserVars == <<input, index, result, iterations, ppc>>
matchVars  == <<pattern, route, sample, mtch, mpc>>
splitVars  == <<raw, segments, joined, resplit, spc>>
vars == <<routerVars, parserVars, matchVars, splitVars>>

----------------------------------------------------------------------------
(* Bounds of the model *)

MaxRawLen   == 5   \* longest raw path string given to split_path
MaxPatLen   == 5   \* longest arbitrary pattern string given to Parser::parse
MaxPatSegs  == 3   \* most '/'-separated fragments in a composed pattern
MaxSample   == 4   \* most tokens in an observed path
MaxPathSegs == 2   \* most tokens in a path given to goto / set_remainder
MaxPushes   == 2   \* most history entries pushed in one run
MaxEqSegs   == 2   \* most fragments of a pattern when two matches are compared
MaxEqSample == 2   \* most tokens of a path when two matches are compared

----------------------------------------------------------------------------
(* Strings *)

NUL == "NUL"
MultiByte == {"U"}

Utf8Len(c) == IF c \in MultiByte THEN 2 ELSE 1

RECURSIVE ByteLen(_)
ByteLen(s) == IF s = <<>> THEN 0 ELSE Utf8Len(Head(s)) + ByteLen(Tail(s))

RECURSIVE SeqsUpTo(_, _)
SeqsUpTo(S, n) ==
    IF n = 0 THEN {<<>>}
    ELSE LET shorter == SeqsUpTo(S, n - 1)
         IN  shorter \cup {Append(s, c) : s \in shorter, c \in S}

----------------------------------------------------------------------------
(* split_path, and the join of RouteMatch::path *)

\* str::split('/'): the pieces between the separators, empty pieces included
RECURSIVE SplitOn(_, _, _)
SplitOn(s, sep, cur) ==
    IF s = <<>> THEN <<cur>>
    ELSE IF Head(s) = sep THEN <<cur>> \o SplitOn(Tail(s), sep, <<>>)
    ELSE SplitOn(Tail(s), sep, Append(cur, Head(s)))

RECURSIVE FilterNonEmpty(_)
FilterNonEmpty(ps) ==
    IF ps = <<>> THEN <<>>
    ELSE IF Head(ps) = <<>> THEN FilterNonEmpty(Tail(ps))
    ELSE <<Head(ps)>> \o FilterNonEmpty(Tail(ps))

split_path_keep_empty(p) == SplitOn(p, "/", <<>>)

split_path(p) == FilterNonEmpty(SplitOn(p, "/", <<>>))

\* [String]::join("/")
RECURSIVE join(_)
join(ps) ==
    IF ps = <<>> THEN <<>>
    ELSE IF Len(ps) = 1 THEN ps[1]
    ELSE ps[1] \o <<"/">> \o join(Tail(ps))

----------------------------------------------------------------------------
(* Segment and the Parser *)

Static(text) == [kind |-> "Static", text |-> text]
Param(name)  == [kind |-> "Param", text |-> name]
Continue     == [kind |-> "Continue", text |-> <<>>]
NoSegment    == [kind |-> "None", text |-> <<>>]

\* self.input.chars().nth(i).unwrap_or_default()
CharAt(s, i) == IF i >= 0 /\ i < Len(s) THEN s[i + 1] ELSE NUL

\* A parser p is [input, index]; index counts characters, from 0.
eol(p) == p.index >= ByteLen(p.input)

peek(p) == CharAt(p.input, p.index)

consume_char(p) ==
    [p |-> [p EXCEPT !.index = p.index + 1], c |-> CharAt(p.input, p.index)]

\* The three closures given to consume_while
cond(name, c) ==
    CASE name = "not_slash"          -> c # "/"
      [] name = "not_close_or_slash" -> c # "}" /\ c # "/"
      [] name = "is_dot"             -> c = "."

RECURSIVE consume_while(_, _)
consume_while(p, name) ==
    IF ~eol(p) /\ cond(name, peek(p))
    THEN LET one  == consume_char(p)
             rest == consume_while(one.p, name)
         IN  [p |-> rest.p, s |-> <<one.c>> \o rest.s]
    ELSE [p |-> p, s |-> <<>>]

parse_static_keep_empty(p) ==
    LET r == consume_while(p, "not_slash")
    IN  [p |-> r.p, seg |-> Static(r.s)]

parse_static(p) ==
    LET r == consume_while(p, "not_slash")
    IN  IF r.s = <<>> THEN [p |-> r.p, seg |-> NoSegment]
        ELSE [p |-> r.p, seg |-> Static(r.s)]

parse_param(p) ==
    LET r == consume_while(consume_char(p).p, "not_close_or_slash")
    IN  IF r.s = <<>> THEN [p |-> r.p, seg |-> NoSegment]
        ELSE [p |-> consume_char(r.p).p, seg |-> Param(r.s)]

parse_continue_any_run(p) ==
    LET r == consume_while(p, "is_dot")
    IN  IF Len(r.s) >= 3 THEN [p |-> r.p, seg |-> Continue]
        ELSE [p |-> r.p, seg |-> NoSegment]

parse_continue(p) ==
    LET r == consume_while(p, "is_dot")
    IN  IF r.s = <<".", ".", ".">> THEN [p |-> r.p, seg |-> Continue]
        ELSE [p |-> r.p, seg |-> NoSegment]

parse_segment(p) ==
    CASE peek(p) = "{" -> parse_param(p)
      [] peek(p) = "." -> parse_continue(p)
      [] OTHER         -> parse_static(p)

\* The first statement of the loop body of Parser::parse
skip_slash_keep(p) == p

skip_slash(p) == IF peek(p) = "/" THEN consume_char(p).p ELSE p

\* One iteration of the loop of Parser::parse, from parser p and result res
parse_iteration(p, res) ==
    LET p1 == skip_slash(p)
    IN  IF eol(p1) THEN [p |-> p1, result |-> res, done |-> TRUE]
        ELSE LET r == parse_segment(p1)
             IN  CASE r.seg = Continue  ->
                        [p |-> r.p, result |-> Append(res, Continue), done |-> TRUE]
                   [] r.seg = NoSegment ->
                        [p |-> r.p, result |-> res, done |-> FALSE]
                   [] OTHER             ->
                        [p |-> r.p, result |-> Append(res, r.seg), done |-> FALSE]

RECURSIVE parse_loop(_, _)
parse_loop(p, res) ==
    LET it == parse_iteration(p, res)
    IN  IF it.done THEN it.result ELSE parse_loop(it.p, it.result)

\* Parser::parse(path)
Parse(path) == parse_loop([input |-> path, index |-> 0], <<>>)

----------------------------------------------------------------------------
(* Route, RouteMatch and Route::matches *)

NoParams == [n \in {} |-> <<>>]

\* HashMap::insert: the new binding replaces an earlier one of the same key
Insert(params, k, v) == [n \in DOMAIN params \cup {k} |-> IF n = k THEN v ELSE params[n]]

\* impl From<&Route> for RouteMatch
RouteMatchFrom(r) ==
    [path |-> <<>>, remainder |-> <<>>, params |-> NoParams, route |-> r]

NoMatch == [some |-> FALSE]
Some(m) == [some |-> TRUE, m |-> m]

\* Iterator::next on a slice iterator at position i (from 1)
IterNext(xs, i) == IF i <= Len(xs) THEN i + 1 ELSE i
HasNext(xs, i) == i <= Len(xs)

\* mtch.params.insert(p, s)
insert_keep_first(params, k, v) == IF k \in DOMAIN params THEN params ELSE Insert(params, k, v)

insert_param(params, k, v) == Insert(params, k, v)

\* The guard of the arm (None, Some(s)): !mtch.remainder.is_empty()
remainder_open_always(m) == TRUE

remainder_open(m) == m.remainder # <<>>

\* The loop of Route::matches: pi and si are the positions of the iterators
\* p and s, m is mtch.  The arms are tried in the order of the source.
RECURSIVE matches_loop(_, _, _, _, _)
matches_loop(path, smp, pi, si, m) ==
    LET hp  == HasNext(path, pi)
        hs  == HasNext(smp, si)
        seg == IF hp THEN path[pi] ELSE NoSegment
        tok == IF hs THEN smp[si] ELSE <<>>
        pn  == IterNext(path, pi)
        sn  == IterNext(smp, si)
    IN  CASE hp /\ seg.kind = "Static" /\ hs /\ seg.text = tok ->
               matches_loop(path, smp, pn, sn,
                   [m EXCEPT !.path = Append(@, tok)])
          [] hp /\ seg.kind = "Param" /\ hs ->
               matches_loop(path, smp, pn, sn,
                   [m EXCEPT !.params = insert_param(@, seg.text, tok),
                             !.path = Append(@, tok)])
          [] hp /\ seg.kind = "Continue" /\ hs ->
               matches_loop(path, smp, pn, sn,
                   [m EXCEPT !.remainder = Append(@, tok)])
          [] hp /\ seg.kind = "Continue" /\ ~hs -> Some(m)
          [] ~hp /\ hs /\ remainder_open(m) ->
               matches_loop(path, smp, pn, sn,
                   [m EXCEPT !.remainder = Append(@, tok)])
          [] ~hp /\ ~hs -> Some(m)
          [] OTHER -> NoMatch

\* Route::matches(&self, sample)
matches(r, smp) == matches_loop(r.path, smp, 1, 1, RouteMatchFrom(r))

\* impl PartialEq for RouteMatch, and the equality #[derive(PartialEq)] would give
RouteMatchEqAllFields(m1, m2) ==
    /\ m1.path = m2.path
    /\ m1.remainder = m2.remainder
    /\ m1.params = m2.params

RouteMatchEq(m1, m2) == m1.path = m2.path

----------------------------------------------------------------------------
(* Inputs *)

\* "a/{id}/...", "a/{}/b" and ".."
PatternExample == <<"a", "/", "{", "i", "d", "}", "/", ".", ".", ".">>
EmptyParamExample == <<"a", "/", "{", "}", "/", "b">>
TwoDots == <<".", ".">>

\* ["a","42","x","y"]
SampleExample == << <<"a">>, <<"4", "2">>, <<"x">>, <<"y">> >>

PatAlphabet == {"/", "{", "}", ".", "a", "U"}

WellFormedFragments ==
    { <<"a">>, <<"b">>, <<"{", "i", "}">>, <<"{", "j", "}">>, <<".", ".", ".">> }

ParserFragments ==
    WellFormedFragments \cup { <<"{", "}">>, <<".", ".">>, <<"U">> }

Composed(frags, n) ==
    { pre \o join(fs) : pre \in {<<>>, <<"/">>}, fs \in SeqsUpTo(frags, n) }

\* "{/{}/..//"
MalformedExample == <<"{", "/", "{", "}", "/", ".", ".", "/", "/">>

ParserInputs ==
    SeqsUpTo(PatAlphabet, MaxPatLen) \cup Composed(ParserFragments, MaxPatSegs)
        \cup {PatternExample, EmptyParamExample, TwoDots, MalformedExample}

MatchPatterns ==
    { join(fs) : fs \in SeqsUpTo(WellFormedFragments, MaxPatSegs) }
        \cup {PatternExample}

SampleTokens == { <<"a">>, <<"b">>, <<"c">> }

Samples == SeqsUpTo(SampleTokens, MaxSample) \cup {SampleExample}

PathTokens == { <<"x">>, <<"y">> }

Paths == SeqsUpTo(PathTokens, MaxPathSegs)

Locations == { pre \o join(ts) : pre \in {<<>>, <<"/">>}, ts \in Paths }

RawPaths == SeqsUpTo({"/", "x", "y"}, MaxRawLen)

EqFragments == { <<"a">>, <<"b">>, <<"{", "i", "}">>, <<".", ".", ".">> }

EqPatterns == { join(fs) : fs \in SeqsUpTo(EqFragments, MaxEqSegs) }

EqSamples == SeqsUpTo({ <<"a">>, <<"b">> }, MaxEqSample)

Subscribers == {"s1"}

----------------------------------------------------------------------------
(* The states in which a component has not been used *)

RouterIdle ==
    /\ current_path = <<>>
    /\ remainder = <<>>
    /\ history = [len |-> 0, top |-> <<>>]
    /\ subs = [s \in {} |-> 0]
    /\ signals = <<>>
    /\ queue = <<>>
    /\ lastOp = [op |-> "none", arg |-> <<>>]
    /\ rpc = "idle"

ParserIdle ==
    /\ input = <<>>
    /\ index = 0
    /\ result = <<>>
    /\ iterations = 0
    /\ ppc = "idle"

MatchIdle ==
    /\ pattern = <<>>
    /\ route = <<>>
    /\ sample = <<>>
    /\ mtch = <<>>
    /\ mpc = <<>>

SplitIdle ==
    /\ raw = <<>>
    /\ segments = <<>>
    /\ joined = <<>>
    /\ resplit = <<>>
    /\ spc = "idle"

----------------------------------------------------------------------------
(* split_path on its own: split, join, split again *)

SplitInit ==
    /\ raw \in RawPaths
    /\ segments = <<>>
    /\ joined = <<>>
    /\ resplit = <<>>
    /\ spc = "start"
    /\ RouterIdle /\ ParserIdle /\ MatchIdle

SplitPath ==
    /\ spc = "start"
    /\ segments' = split_path(raw)
    /\ spc' = "split"
    /\ UNCHANGED <<raw, joined, resplit, routerVars, parserVars, matchVars>>

JoinPath ==
    /\ spc = "split"
    /\ joined' = join(segments)
    /\ spc' = "joined"
    /\ UNCHANGED <<raw, segments, resplit, routerVars, parserVars, matchVars>>

SplitAgain ==
    /\ spc = "joined"
    /\ resplit' = split_path(joined)
    /\ spc' = "resplit"
    /\ UNCHANGED <<raw, segments, joined, routerVars, parserVars, matchVars>>

SplitNext == SplitPath \/ JoinPath \/ SplitAgain

SpecSplit == SplitInit /\ [][SplitNext]_vars

----------------------------------------------------------------------------
(* Parser::parse, one loop iteration per step *)

ParserInit ==
    /\ input \in ParserInputs
    /\ index = 0
    /\ result = <<>>
    /\ iterations = 0
    /\ ppc = "loop"
    /\ RouterIdle /\ MatchIdle /\ SplitIdle

ParseLoop ==
    /\ ppc = "loop"
    /\ LET it == parse_iteration([input |-> input, index |-> index], result)
       IN  /\ index' = it.p.index
           /\ result' = it.result
           /\ iterations' = iterations + 1
           /\ ppc' = IF it.done THEN "done" ELSE "loop"
    /\ UNCHANGED <<input, routerVars, matchVars, splitVars>>

ParserNext == ParseLoop

SpecParser == ParserInit /\ [][ParserNext]_vars

----------------------------------------------------------------------------
(* Route::new and Route::matches.  The caller registers its routes in      *)
(* order and then matches each against an observed path.                   *)

Unregistered == [path |-> <<>>, resolver |-> 0]

MatcherStart(n) ==
    /\ route = [i \in 1..n |-> Unregistered]
    /\ mtch = [i \in 1..n |-> NoMatch]
    /\ mpc = [i \in 1..n |-> "new"]
    /\ RouterIdle /\ ParserIdle /\ SplitIdle

MatcherInit ==
    /\ pattern \in {<<p>> : p \in MatchPatterns}
    /\ sample \in {<<s>> : s \in Samples}
    /\ MatcherStart(1)

\* Two routes: either two patterns and one observed path, or one pattern
\* and two observed paths
EqInit ==
    /\ pattern \in {<<p1, p2>> : p1 \in EqPatterns, p2 \in EqPatterns}
    /\ sample \in {<<s1, s2>> : s1 \in EqSamples, s2 \in EqSamples}
    /\ pattern[1] = pattern[2] \/ sample[1] = sample[2]
    /\ MatcherStart(2)

RouteNew(i) ==
    /\ mpc[i] = "new"
    /\ \A j \in 1..(i - 1) : mpc[j] # "new"
    /\ route' = [route EXCEPT ![i] = [path |-> Parse(pattern[i]), resolver |-> i]]
    /\ mpc' = [mpc EXCEPT ![i] = "registered"]
    /\ UNCHANGED <<pattern, sample, mtch, routerVars, parserVars, splitVars>>

Matches(i) ==
    /\ mpc[i] = "registered"
    /\ \A j \in DOMAIN mpc : mpc[j] # "new"
    /\ \A j \in 1..(i - 1) : mpc[j] = "matched"
    /\ mtch' = [mtch EXCEPT ![i] = matches(route[i], sample[i])]
    /\ mpc' = [mpc EXCEPT ![i] = "matched"]
    /\ UNCHANGED <<pattern, sample, route, routerVars, parserVars, splitVars>>

MatcherNext ==
    \/ \E i \in DOMAIN mpc : RouteNew(i)
    \/ \E i \in DOMAIN mpc : Matches(i)

SpecMatcher == MatcherInit /\ [][MatcherNext]_vars

SpecEq == EqInit /\ [][MatcherNext]_vars

----------------------------------------------------------------------------
(* Router: the navigation state and the subscribers of signal_path()       *)

NoValue == [has |-> FALSE, v |-> <<>>]
Value(v) == [has |-> TRUE, v |-> v]

Unsubscribed == [active |-> FALSE, changed |-> FALSE, last |-> NoValue]

\* Mutable::replace marks every signal of the Mutable as changed ...
NotifiedNone(ss) == ss

Notified(ss) == [s \in DOMAIN ss |-> IF ss[s].active THEN [ss[s] EXCEPT !.changed = TRUE] ELSE ss[s]]

Range(xs) == { xs[i] : i \in DOMAIN xs }

RECURSIVE Remove(_, _)
Remove(xs, x) ==
    IF xs = <<>> THEN <<>>
    ELSE IF Head(xs) = x THEN Remove(Tail(xs), x)
    ELSE <<Head(xs)>> \o Remove(Tail(xs), x)

\* ... and wakes their tasks, in the order the signals were created; a task
\* already in the run queue of the executor keeps its place
RECURSIVE WakeAll(_, _)
WakeAll(q, sigs) ==
    IF sigs = <<>> THEN q
    ELSE WakeAll(IF Head(sigs) \in Range(q) THEN q ELSE Append(q, Head(sigs)), Tail(sigs))

\* What runs: "running" until a goto panics.  The panic ends that call of
\* goto only: the tasks it woke before it failed are still polled.
Polling == rpc \in {"running", "panicked"}

\* Router::new(&bindings::current_pathname())
RouterInit ==
    /\ \E loc \in Locations :
          /\ current_path = split_path(loc)
          /\ remainder = split_path(loc)
          /\ lastOp = [op |-> "new", arg |-> loc]
    /\ history = [len |-> 0, top |-> <<>>]
    /\ subs = [s \in Subscribers |-> Unsubscribed]
    /\ signals = <<>>
    /\ queue = <<>>
    /\ rpc = "running"
    /\ ParserIdle /\ MatchIdle /\ SplitIdle

\* Router::signal_path(): s takes a new signal (dropping the one it held),
\* which has its first value to deliver
SignalPath(s) ==
    /\ rpc = "running"
    /\ subs' = [subs EXCEPT ![s] = [active |-> TRUE, changed |-> TRUE, last |-> NoValue]]
    /\ signals' = Append(Remove(signals, s), s)
    /\ queue' = Append(Remove(queue, s), s)
    /\ UNCHANGED <<current_path, remainder, history, lastOp, rpc>>
    /\ UNCHANGED <<parserVars, matchVars, splitVars>>

\* The value the closure of map() produces when the signal is polled
emit_current_path == current_path

emit == remainder

\* The executor polls the task at the head of its run queue: the signal
\* has changed, the map closure runs
Poll(s) ==
    /\ Polling
    /\ queue # <<>> /\ Head(queue) = s
    /\ subs[s].active
    /\ subs[s].changed
    /\ subs' = [subs EXCEPT ![s] = [active |-> TRUE, changed |-> FALSE, last |-> Value(emit)]]
    /\ queue' = Tail(queue)
    /\ UNCHANGED <<current_path, remainder, history, signals, lastOp, rpc>>
    /\ UNCHANGED <<parserVars, matchVars, splitVars>>

\* Router::set_remainder(remainder)
SetRemainderNotifying(r) ==
    /\ rpc = "running"
    /\ remainder' = r
    /\ subs' = Notified(subs)
    /\ queue' = WakeAll(queue, signals)
    /\ lastOp' = [op |-> "set_remainder", arg |-> r]
    /\ UNCHANGED <<current_path, history, signals, rpc>>
    /\ UNCHANGED <<parserVars, matchVars, splitVars>>

SetRemainder(r) ==
    /\ rpc = "running"
    /\ remainder' = r
    /\ lastOp' = [op |-> "set_remainder", arg |-> r]
    /\ UNCHANGED <<current_path, subs, signals, queue, history, rpc>>
    /\ UNCHANGED <<parserVars, matchVars, splitVars>>

\* Router::goto(path); ok tells whether window().history() is available
GotoKeepRemainder(path, ok) ==
    /\ rpc = "running"
    /\ history.len < MaxPushes
    /\ remainder' = remainder
    /\ current_path' = split_path(path)
    /\ subs' = Notified(subs)
    /\ queue' = WakeAll(queue, signals)
    /\ lastOp' = [op |-> "goto", arg |-> path]
    /\ IF ok THEN /\ history' = [len |-> history.len + 1, top |-> path]
                  /\ rpc' = rpc
             ELSE /\ history' = history
                  /\ rpc' = "panicked"
    /\ UNCHANGED <<signals, parserVars, matchVars, splitVars>>

Goto(path, ok) ==
    /\ rpc = "running"
    /\ history.len < MaxPushes
    /\ remainder' = split_path(path)
    /\ current_path' = split_path(path)
    /\ subs' = Notified(subs)
    /\ queue' = WakeAll(queue, signals)
    /\ lastOp' = [op |-> "goto", arg |-> path]
    /\ IF ok THEN /\ history' = [len |-> history.len + 1, top |-> path]
                  /\ rpc' = rpc
             ELSE /\ history' = history
                  /\ rpc' = "panicked"
    /\ UNCHANGED <<signals, parserVars, matchVars, splitVars>>

Next ==
    \/ \E s \in DOMAIN subs : SignalPath(s)
    \/ \E s \in DOMAIN subs : Poll(s)
    \/ \E r \in Paths : SetRemainder(r)
    \/ \E p \in Locations, ok \in BOOLEAN : Goto(p, ok)

Spec == RouterInit /\ [][Next]_vars

----------------------------------------------------------------------------
(* Route::matches: properties *)

HasContinue(segs) == \E i \in DOMAIN segs : segs[i].kind = "Continue"

\* k Static/Param segments followed by Continue
PrefixThenContinue(segs) ==
    /\ Len(segs) >= 1
    /\ segs[Len(segs)].kind = "Continue"
    /\ \A i \in 1..(Len(segs) - 1) : segs[i].kind \in {"Static", "Param"}

Satisfies(seg, tok) ==
    \/ seg.kind = "Param"
    \/ seg.kind = "Static" /\ seg.text = tok

ParamNames(segs) == { segs[i].text : i \in {j \in DOMAIN segs : segs[j].kind = "Param"} }

LastPosition(segs, name) ==
    CHOOSE i \in DOMAIN segs :
        /\ segs[i] = Param(name)
        /\ \A j \in DOMAIN segs : segs[j] = Param(name) => j <= i

\* What C1 says of path, remainder and the success of a match
C1_Outcome(segs, smp, res) ==
    LET k == Len(segs) - 1
        n == Len(smp)
    IN  /\ res.some <=> (n >= k /\ \A i \in 1..k : Satisfies(segs[i], smp[i]))
        /\ res.some =>
              /\ res.m.path = SubSeq(smp, 1, k)
              /\ res.m.remainder = SubSeq(smp, k + 1, n)
              /\ DOMAIN res.m.params = ParamNames(segs)

\* C1 as stated: a pattern of k Static/Param segments followed by Continue
\* matches a path of n tokens iff n >= k and the first k tokens satisfy their
\* segments; then path is the first k tokens, remainder the last n-k, and
\* params binds the name of every Param segment to the token at its position.
C1_EachParamAtItsPosition ==
    \A r \in DOMAIN mpc :
        (mpc[r] = "matched" /\ PrefixThenContinue(route[r].path)) =>
            /\ C1_Outcome(route[r].path, sample[r], mtch[r])
            /\ mtch[r].some =>
                  \A i \in 1..(Len(route[r].path) - 1) :
                      route[r].path[i].kind = "Param" =>
                          mtch[r].m.params[route[r].path[i].text] = sample[r][i]

\* C1 as amended: the same, but params binds every Param name to the token
\* at the position of the last Param segment of that name (its only position
\* when the pattern does not reuse the name).
C1_PrefixThenContinue ==
    \A r \in DOMAIN mpc :
        (mpc[r] = "matched" /\ PrefixThenContinue(route[r].path)) =>
            /\ C1_Outcome(route[r].path, sample[r], mtch[r])
            /\ mtch[r].some =>
                  \A name \in ParamNames(route[r].path) :
                      mtch[r].m.params[name] =
                          sample[r][LastPosition(route[r].path, name)]

C1_Witness ==
    /\ mpc = <<"matched">>
    /\ pattern[1] = PatternExample
    /\ sample[1] = SampleExample
    /\ route[1].path = <<Static(<<"a">>), Param(<<"i", "d">>), Continue>>
    /\ mtch[1].some
    /\ mtch[1].m.path = << <<"a">>, <<"4", "2">> >>
    /\ mtch[1].m.remainder = << <<"x">>, <<"y">> >>
    /\ mtch[1].m.params = [n \in {<<"i", "d">>} |-> <<"4", "2">>]

\* C2: a pattern without Continue never matches a path whose number of
\* tokens differs from the pattern's number of segments.
C2_LengthMismatchFails ==
    \A r \in DOMAIN mpc :
        ( /\ mpc[r] = "matched"
          /\ ~HasContinue(route[r].path)
          /\ Len(sample[r]) # Len(route[r].path) ) => ~mtch[r].some

\* a path that satisfies the whole pattern and has one token more
C2_Witness ==
    /\ mpc = <<"matched">>
    /\ ~HasContinue(route[1].path)
    /\ Len(route[1].path) = 2
    /\ Len(sample[1]) = 3
    /\ \A i \in 1..2 : Satisfies(route[1].path[i], sample[1][i])
    /\ ~mtch[1].some

----------------------------------------------------------------------------
(* Parser::parse: properties *)

Pieces(s) == SplitOn(s, "/", <<>>)

RECURSIVE DropPieces(_, _)
DropPieces(ps, drop) ==
    IF ps = <<>> THEN <<>>
    ELSE IF Head(ps) \in drop THEN DropPieces(Tail(ps), drop)
    ELSE <<Head(ps)>> \o DropPieces(Tail(ps), drop)

EmptyParam == <<"{", "}">>
OpenBrace == <<"{">>

OneByteChars(s) == \A i \in DOMAIN s : s[i] \notin MultiByte

\* '/'-separated non-empty segments with a `{}` segment between other
\* segments, or with a `{` that ends the input after other segments
HasEmptyParamSegment(s) ==
    LET ps == Pieces(s)
    IN  /\ \A i \in DOMAIN ps : ps[i] # <<>>
        /\ \/ \E i \in 2..(Len(ps) - 1) : ps[i] = EmptyParam
           \/ Len(ps) >= 2 /\ ps[Len(ps)] = OpenBrace

\* s without its `{}` segments between other segments and without a final `{`
WithoutEmptyParams(s) ==
    LET ps    == Pieces(s)
        first == ps[1]
        last  == ps[Len(ps)]
        inner == DropPieces(SubSeq(ps, 2, Len(ps) - 1), {EmptyParam})
    IN  IF Len(ps) < 2 THEN s
        ELSE join(<<first>> \o inner \o (IF last = OpenBrace THEN <<>> ELSE <<last>>))

\* C3, on patterns of one-byte characters: an empty parameter segment emits
\* no Segment: a pattern with a `{}` segment between other segments (or a `{`
\* at end of input) parses to the same sequence as the pattern without that
\* segment, and "a/{}/b" parses to [Static("a"), Static("b")].
C3_EmptyParamDropped ==
    (ppc = "done" /\ OneByteChars(input)) =>
        /\ HasEmptyParamSegment(input) => result = Parse(WithoutEmptyParams(input))
        /\ input = EmptyParamExample => result = <<Static(<<"a">>), Static(<<"b">>)>>

\* A well-formed pattern: an optional leading '/', then '/'-separated
\* segments, each a literal or {name}, the last one possibly `...`
IsLiteral(piece) == piece # <<>> /\ piece[1] \notin {"{", "."}

IsParam(piece) ==
    /\ Len(piece) >= 3
    /\ piece[1] = "{"
    /\ piece[Len(piece)] = "}"
    /\ \A i \in 2..(Len(piece) - 1) : piece[i] # "}"

IsWildcard(piece) == piece = <<".", ".", ".">>

Body(s) == IF s # <<>> /\ Head(s) = "/" THEN Tail(s) ELSE s

WellFormed(s) ==
    LET ps == Pieces(Body(s))
    IN  \/ Body(s) = <<>>
        \/ /\ \A i \in 1..(Len(ps) - 1) : IsLiteral(ps[i]) \/ IsParam(ps[i])
           /\ IsLiteral(ps[Len(ps)]) \/ IsParam(ps[Len(ps)]) \/ IsWildcard(ps[Len(ps)])

ExpectedSegment(piece) ==
    CASE IsWildcard(piece) -> Continue
      [] IsParam(piece)    -> Param(SubSeq(piece, 2, Len(piece) - 1))
      [] OTHER             -> Static(piece)

ExpectedSegments(s) ==
    IF Body(s) = <<>> THEN <<>>
    ELSE [i \in 1..Len(Pieces(Body(s))) |-> ExpectedSegment(Pieces(Body(s))[i])]

\* C6: a well-formed pattern parses to one Segment per pattern segment, in
\* order: Static(text) for a literal, Param(name) for {name}, Continue for
\* `...`; the empty pattern parses to the empty sequence.
C6_WellFormedParsed ==
    (ppc = "done" /\ WellFormed(input)) => result = ExpectedSegments(input)


\* The number of '.' characters of s from position i (from 0) on
RECURSIVE DotRun(_, _)
DotRun(s, i) == IF i < Len(s) /\ s[i + 1] = "." THEN 1 + DotRun(s, i + 1) ELSE 0

\* Where the segment of the next loop iteration starts
SegmentStart == IF index < Len(input) /\ input[index + 1] = "/" THEN index + 1 ELSE index

\* C7: a run of dots at the start of a segment emits Continue (and ends the
\* scan) when it is exactly 3 dots long; a run of any other length emits no
\* Segment and the scan resumes at the character just past the run, so ".."
\* parses to the empty sequence and "..a" to [Static("a")].
C7_DotRun ==
    [][ /\ (ppc = "loop" /\ DotRun(input, SegmentStart) = 3) =>
              (result' = Append(result, Continue) /\ ppc' = "done")
        /\ (ppc = "loop" /\ DotRun(input, SegmentStart) \notin {0, 3}) =>
              /\ result' = result
              /\ ppc' = "loop"
              /\ index' = SegmentStart + DotRun(input, SegmentStart)
        /\ (input = TwoDots /\ ppc' = "done") => result' = <<>>
        /\ (input = <<".", ".", "a">> /\ ppc' = "done") => result' = <<Static(<<"a">>)>>
      ]_vars

\* a run of four dots has been dropped and the text after it parsed
C7_Witness ==
    /\ input = <<".", ".", ".", ".", "a">>
    /\ ppc = "done"
    /\ result = <<Static(<<"a">>)>>

----------------------------------------------------------------------------
(* Router: properties *)

\* Steps, told by what they leave in the state: a poll clears the changed
\* flag of a signal, goto pushes to the history or panics, and set_remainder
\* records itself in lastOp without either.
PollStep(s) == subs[s].active /\ subs[s].changed /\ subs'[s].active /\ ~subs'[s].changed

GotoStep(p) ==
    /\ lastOp' = [op |-> "goto", arg |-> p]
    /\ history' # history \/ rpc' # rpc

SetRemainderStep(r) ==
    /\ lastOp' = [op |-> "set_remainder", arg |-> r]
    /\ lastOp' # lastOp
    /\ history' = history /\ rpc' = rpc

\* C4: a read of the path signal after goto(p) yields split_path(p);
\* set_remainder(r) leaves current_path as it is and a read after it yields
\* r; a following goto(q) sets current_path and remainder to split_path(q),
\* whatever set_remainder stored.  (With p = "/x/y" and r = ["y"]: the reads
\* yield ["x","y"] and then ["y"], with current_path still ["x","y"].)
C4_GotoReadSetRemainderReadGoto ==
    [][ /\ \A s \in DOMAIN subs :
              (PollStep(s) /\ lastOp.op = "goto") =>
                  subs'[s].last = Value(split_path(lastOp.arg))
        /\ \A r \in Paths : SetRemainderStep(r) => current_path' = current_path
        /\ \A s \in DOMAIN subs :
              (PollStep(s) /\ lastOp.op = "set_remainder") =>
                  (subs'[s].last = Value(lastOp.arg) /\ current_path' = current_path)
        /\ \A q \in Locations :
              GotoStep(q) => (current_path' = split_path(q) /\ remainder' = split_path(q))
      ]_vars

\* after goto("/x/y") and set_remainder(["y"]), a read has yielded ["y"]
C4_Witness ==
    /\ history = [len |-> 1, top |-> <<"/", "x", "/", "y">>]
    /\ lastOp = [op |-> "set_remainder", arg |-> << <<"y">> >>]
    /\ current_path = << <<"x">>, <<"y">> >>
    /\ \E s \in DOMAIN subs : ~subs[s].changed /\ subs[s].last = Value(<< <<"y">> >>)

\* C5: when the last mutation of the navigation state was the construction
\* of the Router from location p, or goto(p), remainder equals current_path
\* and both equal split_path(p).
C5_RemainderIsCurrentPath ==
    lastOp.op \in {"new", "goto"} =>
        /\ remainder = current_path
        /\ current_path = split_path(lastOp.arg)

\* a second goto issued while a subscriber had not yet been polled after an
\* earlier one: the subscriber still holds the value of the initial location
C5_Witness ==
    /\ lastOp.op = "goto"
    /\ history.len = 2
    /\ current_path = << <<"y">> >>
    /\ remainder = current_path
    /\ \E s \in DOMAIN subs : subs[s].changed /\ subs[s].last = Value(<<>>)

\* C10: set_remainder(segments) sets remainder to the segments and changes
\* nothing else: current_path is unchanged, nothing is pushed to the history,
\* and no signal is woken.
C10_SetRemainderFrame ==
    [][ \A r \in Paths :
            SetRemainderStep(r) =>
                /\ remainder' = r
                /\ current_path' = current_path
                /\ history' = history
                /\ subs' = subs
                /\ queue' = queue
      ]_vars

\* a subscriber that received ["x","y"] stays asleep after set_remainder(["y"])
C10_Witness ==
    /\ lastOp = [op |-> "set_remainder", arg |-> << <<"y">> >>]
    /\ remainder = << <<"y">> >>
    /\ current_path = << <<"x">>, <<"y">> >>
    /\ \E s \in DOMAIN subs :
          /\ subs[s].active
          /\ ~subs[s].changed
          /\ subs[s].last = Value(<< <<"x">>, <<"y">> >>)

----------------------------------------------------------------------------
(* split_path: properties *)

\* The positions (from 1) where a maximal '/'-free run of s starts and ends
RunStarts(s) == { i \in DOMAIN s : s[i] # "/" /\ (i = 1 \/ s[i - 1] = "/") }
RunEnds(s) == { i \in DOMAIN s : s[i] # "/" /\ (i = Len(s) \/ s[i + 1] = "/") }

\* The k-th smallest element of a set of numbers
Kth(S, k) == CHOOSE x \in S : Cardinality({y \in S : y <= x}) = k

MaximalRuns(s) ==
    [k \in 1..Cardinality(RunStarts(s)) |->
        SubSeq(s, Kth(RunStarts(s), k), Kth(RunEnds(s), k))]

\* s without its leading, trailing and doubled '/'
RECURSIVE Canonical(_)
Canonical(s) ==
    IF s = <<>> THEN <<>>
    ELSE IF Head(s) = "/" THEN Canonical(Tail(s))
    ELSE LET n == IF \E i \in DOMAIN s : s[i] = "/"
                  THEN (CHOOSE i \in DOMAIN s :
                            s[i] = "/" /\ \A j \in 1..(i - 1) : s[j] # "/") - 1
                  ELSE Len(s)
             rest == Canonical(SubSeq(s, n + 1, Len(s)))
         IN  SubSeq(s, 1, n) \o (IF rest = <<>> THEN <<>> ELSE <<"/">> \o rest)

\* C8: split_path returns the maximal '/'-free non-empty runs of the string
\* in order, none empty or containing '/'; joining the result with '/' and
\* splitting again returns the same sequence; the join is the string without
\* its leading, trailing and doubled slashes (the string itself when it is
\* canonical), so those slashes do not change the result.
C8_SplitJoinRoundTrip ==
    /\ spc \in {"split", "joined", "resplit"} =>
          /\ segments = MaximalRuns(raw)
          /\ \A i \in DOMAIN segments :
                segments[i] # <<>> /\ \A j \in DOMAIN segments[i] : segments[i][j] # "/"
    /\ spc \in {"joined", "resplit"} =>
          /\ joined = Canonical(raw)
          /\ Canonical(raw) = raw => joined = raw
    /\ spc = "resplit" => resplit = segments

C8_Witness ==
    /\ spc = "resplit"
    /\ raw = <<"/", "x", "/", "/", "y">>
    /\ segments = << <<"x">>, <<"y">> >>
    /\ joined = <<"x", "/", "y">>
    /\ resplit = segments

----------------------------------------------------------------------------
(* RouteMatch equality: properties *)

BothMatched ==
    /\ DOMAIN mpc = {1, 2}
    /\ mpc[1] = "matched" /\ mpc[2] = "matched"
    /\ mtch[1].some /\ mtch[2].some

\* C9: two RouteMatch values are equal exactly when their paths are equal:
\* two patterns without Continue that both match one observed path give
\* equal values whatever their params, and a pattern ending in Continue
\* matched against two paths that agree on the tokens before the absorbed
\* suffix gives equal values whatever their remainders.
C9_EqualByPathOnly ==
    BothMatched =>
        LET m1 == mtch[1].m
            m2 == mtch[2].m
            k  == Len(route[1].path) - 1
        IN  /\ RouteMatchEq(m1, m2) <=> (m1.path = m2.path)
            /\ ( /\ sample[1] = sample[2]
                 /\ ~HasContinue(route[1].path)
                 /\ ~HasContinue(route[2].path) ) => RouteMatchEq(m1, m2)
            /\ ( /\ route[1].path = route[2].path
                 /\ PrefixThenContinue(route[1].path)
                 /\ SubSeq(sample[1], 1, k) = SubSeq(sample[2], 1, k) ) =>
                     RouteMatchEq(m1, m2)

\* "a/{i}" and "a/b" both match ["a","b"]; the values are equal, the params not
C9_Witness ==
    /\ BothMatched
    /\ pattern = << <<"a", "/", "{", "i", "}">>, <<"a", "/", "b">> >>
    /\ sample = << << <<"a">>, <<"b">> >>, << <<"a">>, <<"b">> >> >>
    /\ RouteMatchEq(mtch[1].m, mtch[2].m)
    /\ mtch[1].m.params # mtch[2].m.params
    /\ mtch[1].m.route # mtch[2].m.route

----------------------------------------------------------------------------
(* Router::goto without the history capability: properties *)

\* C11: a goto that finds the history capability unavailable is fatal:
\* nothing runs after it, so no subscriber is given a current_path that was
\* set by a goto whose location was never pushed to the history; and only
\* goto is fatal.
C11_FailedGotoIsFatal ==
    [][ /\ rpc # "panicked"
        /\ rpc' = "panicked" => lastOp'.op = "goto"
        /\ \A s \in DOMAIN subs :
              (PollStep(s) /\ lastOp.op = "goto") =>
                  (history.len > 0 /\ history.top = lastOp.arg)
      ]_vars

----------------------------------------------------------------------------
(* Parser::parse: termination *)

\* C12: Parser::parse terminates on every input: each iteration of the loop
\* either ends the scan or strictly advances the index, the index never
\* passes the end of the input by more than one, and after at most as many
\* iterations as the input has characters the index has reached the end of
\* the input (so the next iteration, if any, ends the scan).
C12_ParseTerminates ==
    [][ ppc = "loop" =>
           /\ ppc' = "done" \/ index' > index
           /\ index' <= ByteLen(input) + 1
           /\ iterations' >= Len(input) => index' >= ByteLen(input)
           /\ iterations' <= Len(input) + 1
           /\ index >= ByteLen(input) => ppc' = "done"
      ]_vars

\* a malformed input: unclosed '{', empty braces, a stray dot-run, repeated
\* and trailing '/'
C12_Witness ==
    /\ input = MalformedExample
    /\ ppc = "done"
    /\ iterations = 6
    /\ result = <<Static(<<"}">>)>>

----------------------------------------------------------------------------
(* The path signal: what a subscriber receives *)

\* The changed flag of a signal is raised
Woken(s) == ~subs[s].changed /\ subs'[s].changed

\* s takes a new signal
Subscribed(s) == subs'[s].active /\ subs'[s].changed /\ subs'[s].last = NoValue

\* C13: emissions are never torn.  Every value a subscriber receives is the
\* whole of remainder at the moment of the emission, whatever current_path
\* is; when the last mutation was goto(p) it is split_path(p); and a signal
\* is woken only by a goto (a change of current_path) or by subscription.
C13_EmissionsNotTorn ==
    [][ \A s \in DOMAIN subs :
           /\ PollStep(s) =>
                 /\ subs'[s].last = Value(remainder)
                 /\ remainder' = remainder /\ current_path' = current_path
                 /\ lastOp.op = "goto" => subs'[s].last = Value(split_path(lastOp.arg))
           /\ Woken(s) => (Subscribed(s) \/ \E p \in Locations : GotoStep(p))
      ]_vars

\* a subscriber holds the value of an earlier path while a goto has already
\* replaced remainder and current_path together, and then receives the new one
C13_Witness ==
    /\ lastOp = [op |-> "goto", arg |-> <<"/", "y", "/", "x">>]
    /\ history.len = 2
    /\ remainder = << <<"y">>, <<"x">> >>
    /\ \E s \in DOMAIN subs : ~subs[s].changed /\ subs[s].last = Value(<< <<"y">>, <<"x">> >>)

----------------------------------------------------------------------------
(* A parent router and a child router on the path signal.  The parent      *)
(* subscribed first; each time it receives a value it matches its route    *)
(* against it and hands the unconsumed suffix down with set_remainder.     *)

Parent == "parent"
Child == "child"

\* "{i}/...", "x/..." and "..."
ParentPatterns ==
    { <<"{", "i", "}", "/", ".", ".", ".">>, <<"x", "/", ".", ".", ".">>, <<".", ".", ".">> }

NestedInit ==
    /\ \E loc \in Locations :
          /\ current_path = split_path(loc)
          /\ remainder = split_path(loc)
          /\ lastOp = [op |-> "new", arg |-> loc]
    /\ history = [len |-> 0, top |-> <<>>]
    /\ subs = [s \in {Parent, Child} |->
                  [active |-> TRUE, changed |-> TRUE, last |-> NoValue]]
    /\ signals = <<Parent, Child>>
    /\ queue = <<Parent, Child>>
    /\ rpc = "running"
    /\ pattern \in {<<p>> : p \in ParentPatterns}
    /\ route = <<[path |-> Parse(pattern[1]), resolver |-> 1]>>
    /\ sample = << <<>> >>
    /\ mtch = <<NoMatch>>
    /\ mpc = <<"registered">>
    /\ ParserIdle /\ SplitIdle

\* The parent is polled: it receives the value of the signal, matches its
\* route against it and calls set_remainder(mtch.remainder())
ParentPoll ==
    /\ Polling
    /\ queue # <<>> /\ Head(queue) = Parent
    /\ subs[Parent].active
    /\ subs[Parent].changed
    /\ LET m == matches(route[1], emit)
       IN  /\ subs' = [subs EXCEPT ![Parent] =
                          [active |-> TRUE, changed |-> FALSE, last |-> Value(emit)]]
           /\ queue' = Tail(queue)
           /\ IF m.some
              THEN /\ remainder' = m.m.remainder
                   /\ lastOp' = [op |-> "set_remainder", arg |-> m.m.remainder]
              ELSE UNCHANGED <<remainder, lastOp>>
    /\ UNCHANGED <<current_path, history, signals, rpc>>
    /\ UNCHANGED <<parserVars, matchVars, splitVars>>

NestedNext ==
    \/ ParentPoll
    \/ Poll(Child)
    \/ \E p \in Locations, ok \in BOOLEAN : Goto(p, ok)

SpecNested == NestedInit /\ [][NestedNext]_vars

\* The suffix of path that the parent's route leaves unconsumed
ParentConsumes(path) ==
    /\ Len(path) >= Len(route[1].path) - 1
    /\ \A i \in 1..(Len(route[1].path) - 1) : Satisfies(route[1].path[i], path[i])

UnconsumedSuffix(path) == SubSeq(path, Len(route[1].path), Len(path))

\* C14: every value the child receives is the suffix of the current path
\* that the parent's route leaves unconsumed, never the full path of a goto
\* and never the suffix of an earlier path.
C14_ChildSeesUnconsumedSuffix ==
    [][ (PollStep(Child) /\ rpc' = "running" /\ ParentConsumes(current_path)) =>
            subs'[Child].last = Value(UnconsumedSuffix(current_path))
      ]_vars

----------------------------------------------------------------------------
(* Router: delivery under a fair executor.  A woken task stays in the run  *)
(* queue until it is polled, and the executor keeps draining the queue.    *)

SpecFair == Spec /\ \A s \in Subscribers : WF_vars(Poll(s))

\* The subscriber has a value pending: it was subscribed or woken and not
\* polled since
Pending(s) == subs[s].active /\ subs[s].changed

\* The subscriber is up to date with the last goto
ReflectsLastGoto(s) ==
    (subs[s].active /\ ~subs[s].changed /\ lastOp.op = "goto") =>
        subs[s].last = Value(split_path(lastOp.arg))

\* C15: no update of the path is missed.  A subscriber with nothing
\* pending holds the value of the last goto (when no set_remainder
\* followed it), and a pending value, from the subscription or from a goto,
\* is eventually delivered when the subscriber keeps being polled.
C15_NoUpdateMissed ==
    \A s \in Subscribers :
        /\ [] ReflectsLastGoto(s)
        /\ Pending(s) ~> (subs[s].active /\ ~subs[s].changed /\ subs[s].last = Value(remainder))

C15_Witness ==
    /\ lastOp = [op |-> "goto", arg |-> <<"x", "/", "y">>]
    /\ history = [len |-> 2, top |-> <<"x", "/", "y">>]
    /\ \E s \in Subscribers :
          /\ subs[s].active /\ ~subs[s].changed
          /\ subs[s].last = Value(<< <<"x">>, <<"y">> >>)

----------------------------------------------------------------------------
(* Parser::parse: the text of the emitted segments *)

\* t is a contiguous run of the characters of s
IsRunOf(t, s) ==
    \E i \in 1..(Len(s) + 1) :
        /\ i + Len(t) - 1 <= Len(s)
        /\ SubSeq(s, i, i + Len(t) - 1) = t

\* C16: the text of every Static and the name of every Param emitted is,
\* verbatim, a contiguous run of characters of the pattern string, multi-byte
\* characters included; no filler is added, and the scan stops exactly
\* after the last character.
C16_TextIsVerbatim ==
    /\ \A i \in DOMAIN result :
          result[i].kind \in {"Static", "Param"} => IsRunOf(result[i].text, input)
    /\ ppc = "done" => index <= Len(input)

\* C17: every parse result is well-formed: Continue occurs at most once and
\* only as the last element, no Static has an empty text or a text with
\* '/', no Param has an empty name or a name with '/' or '}'.
C17_ResultWellFormed ==
    \A i \in DOMAIN result :
        /\ result[i].kind = "Continue" => i = Len(result)
        /\ result[i].kind = "Static" =>
              (result[i].text # <<>> /\ "/" \notin Range(result[i].text))
        /\ result[i].kind = "Param" =>
              (result[i].text # <<>> /\ Range(result[i].text) \cap {"/", "}"} = {})

C17_Witness ==
    /\ input = <<"/", "/", "{", "a", "/">>
    /\ ppc = "done"
    /\ result = <<Param(<<"a">>)>>

----------------------------------------------------------------------------
(* Route::matches: conservation of the sample, repeated parameter names *)

\* C18: a successful match conserves the sample: path followed by remainder
\* is the sample, token for token and in order; remainder is non-empty only
\* when the pattern ends in Continue; a failed match returns None, never a
\* partly filled RouteMatch.
C18_MatchConservesSample ==
    \A r \in DOMAIN mpc :
        mpc[r] = "matched" =>
            /\ mtch[r].some =>
                  /\ mtch[r].m.path \o mtch[r].m.remainder = sample[r]
                  /\ mtch[r].m.remainder # <<>> =>
                        (route[r].path # <<>> /\
                             route[r].path[Len(route[r].path)].kind = "Continue")
            /\ ~mtch[r].some => mtch[r] = NoMatch

C18_Witness ==
    /\ mpc = <<"matched">>
    /\ route[1].path = <<Param(<<"i">>), Static(<<"b">>), Continue>>
    /\ sample[1] = << <<"c">>, <<"b">>, <<"a">>, <<"c">> >>
    /\ mtch[1].some
    /\ mtch[1].m.path = << <<"c">>, <<"b">> >>
    /\ mtch[1].m.remainder = << <<"a">>, <<"c">> >>

\* The same Param name occurs twice in segs
RepeatedName(segs) ==
    \E i, j \in DOMAIN segs : i < j /\ segs[i].kind = "Param" /\ segs[i] = segs[j]

\* The number of Static and Param segments of segs
Fixed(segs) == IF HasContinue(segs) THEN Len(segs) - 1 ELSE Len(segs)

\* C19: when a pattern repeats a parameter name, matches still succeeds
\* under the usual conditions, every matched token is appended to path, and
\* params binds the name to the token of the rightmost Param of that name.
C19_RepeatedParamLastWins ==
    \A r \in DOMAIN mpc :
        (mpc[r] = "matched" /\ RepeatedName(route[r].path)) =>
            LET segs == route[r].path
                smp  == sample[r]
                k    == Fixed(segs)
                n    == Len(smp)
            IN  /\ mtch[r].some <=>
                      /\ IF HasContinue(segs) THEN n >= k ELSE n = k
                      /\ \A i \in 1..k : Satisfies(segs[i], smp[i])
                /\ mtch[r].some =>
                      /\ mtch[r].m.path = SubSeq(smp, 1, k)
                      /\ DOMAIN mtch[r].m.params = ParamNames(segs)
                      /\ \A name \in ParamNames(segs) :
                            mtch[r].m.params[name] = smp[LastPosition(segs, name)]

C19_Witness ==
    /\ mpc = <<"matched">>
    /\ route[1].path = <<Param(<<"i">>), Param(<<"j">>), Param(<<"i">>)>>
    /\ sample[1] = << <<"a">>, <<"b">>, <<"c">> >>
    /\ mtch[1].some
    /\ mtch[1].m.path = << <<"a">>, <<"b">>, <<"c">> >>
    /\ mtch[1].m.params[<<"i">>] = <<"c">>
    /\ mtch[1].m.params[<<"j">>] = <<"b">>

====
